---- MODULE Spec2Model ----
(***************************************************************************)
(* Bluestein's FFT (fourier-algorithms/src/bluesteins.rs).                 *)
(*                                                                         *)
(* The engine is generic over the scalar type T: Float.  The model         *)
(* instantiates T with an exact field: the integers modulo the prime       *)
(* P = 239.  In that field cos(k*pi/120) and sin(k*pi/120) exist exactly   *)
(* for every k (the circle a^2 + b^2 = 1 over GF(239) is a cyclic group of *)
(* order 240), -1 has no square root, so Complex<T> is the pair (re, im)   *)
(* with the usual complex arithmetic, and 1/N and sqrt(N) exist for the    *)
(* transform sizes 1..6 and the inner sizes 1..16 the model uses.  The     *)
(* field is an image of the ring the engine computes in over the complex   *)
(* numbers (generated by the 240th roots of unity, 1/2, 1/3 and 1/5):      *)
(* every equation between such numbers that holds over the complex numbers *)
(* holds here.  Rounding is outside the model.                             *)
(* Arrays are functions on 0..len-1, as slices are indexed in the source.  *)
(***************************************************************************)
EXTENDS Integers, Sequences, FiniteSets, TLC

(* ---------------------------- bounds ----------------------------------- *)
\* largest transform size handed to new_with_fft
MaxN == 5
\* largest real or imaginary part of a sample the caller writes
MaxVal == 1
\* number of top-level transform_in_place calls made on one engine
MaxCalls == 2
\* largest argument handed to inner_fft_size in SizeSpec
MaxArg == 130
\* transform_in_place calls on the stack at once
MaxDepth == 2

(* ------------------------- the scalar type T --------------------------- *)
P == 239
\* number of steps of the full circle: angles are multiples of 2*pi/Circle
Circle == P + 1
HalfCircle == Circle \div 2

RAdd(a, b) == (a + b) % P
RSub(a, b) == (a - b) % P
RMul(a, b) == (a * b) % P
RNeg(a) == (P - a) % P
\* T::from_usize
from_usize(n) == n % P
\* 1 / a in T
RInv(a) == CHOOSE b \in 1..(P - 1) : (a * b) % P = 1
RDiv(a, b) == RMul(a, RInv(b))

(* --------------------------- Complex<T> -------------------------------- *)
Complex == (0..(P - 1)) \X (0..(P - 1))
Cx(re, im) == <<re % P, im % P>>
\* Complex::default()
Zero == <<0, 0>>
One == <<1, 0>>
CAdd(a, b) == <<RAdd(a[1], b[1]), RAdd(a[2], b[2])>>
CMul(a, b) ==
    <<RSub(RMul(a[1], b[1]), RMul(a[2], b[2])),
      RAdd(RMul(a[1], b[2]), RMul(a[2], b[1]))>>
conj(a) == <<a[1], RNeg(a[2])>>
\* Complex * T
CScale(a, r) == <<RMul(a[1], r), RMul(a[2], r)>>

\* (cos, sin) of the angle 2*pi/Circle: a generator of the unit circle
UnitStep == <<12, 88>>
RECURSIVE UnitPow(_)
UnitPow(k) ==
    IF k = 0 THEN One
    ELSE IF k % 2 = 0 THEN CMul(UnitPow(k \div 2), UnitPow(k \div 2))
    ELSE CMul(UnitStep, UnitPow(k - 1))
\* UnitTable[k] = (cos, sin) of the angle 2*pi*k/Circle
UnitTable == [k \in 0..(Circle - 1) |-> UnitPow(k)]
\* cos and sin of theta = index*pi/size
cos(index, size) == UnitTable[(index * (HalfCircle \div size)) % Circle][1]
sin(index, size) == UnitTable[(index * (HalfCircle \div size)) % Circle][2]
\* T::sqrt at the integers 1..6: the positive roots, written with the cosines
\* they are over the reals (sqrt 2 = 2 cos(pi/4), sqrt 3 = 2 cos(pi/6),
\* sqrt 5 = 4 cos(pi/5) - 1), so that sqrt agrees with cos and sin
RSqrt(a) ==
    CASE a = 1 -> 1
      [] a = 2 -> RMul(2, cos(1, 4))
      [] a = 3 -> RMul(2, cos(1, 6))
      [] a = 4 -> 2
      [] a = 5 -> RSub(RMul(4, cos(1, 5)), 1)
      [] a = 6 -> RMul(RMul(2, cos(1, 4)), RMul(2, cos(1, 6)))

(* ------------------------------ slices --------------------------------- *)
LenOf(a) == Cardinality(DOMAIN a)
Filled(n, v) == [i \in 0..(n - 1) |-> v]
Empty == Filled(0, Zero)
Min(a, b) == IF a < b THEN a ELSE b

(* ------------------- the inner FFT (crate::Fft) ------------------------ *)
\* exp(2*pi*i*e/n) for n dividing Circle
Root(n, e) == UnitTable[(e * (Circle \div n)) % Circle]
RECURSIVE CSumTo(_, _)
CSumTo(a, n) == IF n = 0 THEN Zero ELSE CAdd(CSumTo(a, n - 1), a[n - 1])
\* the exact DFT of a, sign -1 forward and +1 inverse, unscaled
Dft(a, sign) ==
    LET n == LenOf(a)
    IN  [k \in 0..(n - 1) |->
            CSumTo([j \in 0..(n - 1) |-> CMul(a[j], Root(n, sign * j * k))], n)]
\* Fft::fft_in_place
fft_in_place(a) == Dft(a, -1)
\* Fft::ifft_in_place: undoes fft_in_place
ifft_in_place(a) ==
    LET d == Dft(a, 1)
        r == RInv(from_usize(LenOf(a)))
    IN  [k \in DOMAIN a |-> CScale(d[k], r)]

(* --------------------------- Transform --------------------------------- *)
Transforms == {"Fft", "Ifft", "UnscaledIfft", "SqrtScaledFft", "SqrtScaledIfft"}
is_forward(transform) == transform \in {"Fft", "SqrtScaledFft"}

(* ----------------------- twiddle precomputation ------------------------ *)
compute_half_twiddle(index, size) ==
    <<cos(index, size), RNeg(sin(index, size))>>

\* Option<usize>::None, and the value of a call that panicked
None == -1

RECURSIVE next_power_of_two(_, _)
next_power_of_two(x, p) == IF p >= x THEN p ELSE next_power_of_two(x, 2 * p)
\* mutant: the next power of two strictly above x
next_power_of_two_above(x) == next_power_of_two(x + 1, 1)
\* usize::checked_next_power_of_two at sizes far below usize::MAX
checked_next_power_of_two(x) == next_power_of_two(x, 1)
\* 2 * 0 - 1 overflows usize: a panic in a checked build, usize::MAX in an
\* unchecked one, where checked_next_power_of_two is None and unwrap panics
inner_fft_size(size) ==
    IF size = 0 THEN None ELSE checked_next_power_of_two(2 * size - 1)

\* mutant: the high range starts one index early (i >= fft.size() - size)
w_index_inclusive(i, size, fft_size) ==
    IF i < size THEN <<TRUE, i * i>>
    ELSE IF i >= fft_size - size THEN <<TRUE, (i - fft_size) * (i - fft_size)>>
    ELSE <<FALSE, 0>>
\* the Option<f64> of lines 28-36: <<is_some, index>>
w_index(i, size, fft_size) ==
    IF i < size THEN <<TRUE, i * i>>
    ELSE IF i > fft_size - size THEN <<TRUE, (i - fft_size) * (i - fft_size)>>
    ELSE <<FALSE, 0>>

\* mutant: the forward table is stored without .conj()
w_fill_forward_unconjugated(size, fft_size) ==
    [i \in 0..(fft_size - 1) |->
        LET index == w_index(i, size, fft_size)
        IN  IF index[1] THEN compute_half_twiddle(index[2], size) ELSE Zero]
\* the loop of initialize_w_twiddles, before the two inner FFTs
w_fill_forward(size, fft_size) ==
    [i \in 0..(fft_size - 1) |->
        LET index == w_index(i, size, fft_size)
        IN  IF index[1] THEN conj(compute_half_twiddle(index[2], size)) ELSE Zero]
w_fill_inverse(size, fft_size) ==
    [i \in 0..(fft_size - 1) |->
        LET index == w_index(i, size, fft_size)
        IN  IF index[1] THEN compute_half_twiddle(index[2], size) ELSE Zero]

\* the loop of initialize_x_twiddles
x_fill_forward(size) ==
    [i \in 0..(size - 1) |-> conj(compute_half_twiddle(-(i * i), size))]
x_fill_inverse(size) ==
    [i \in 0..(size - 1) |-> compute_half_twiddle(-(i * i), size)]

(* ------------------------------ apply ---------------------------------- *)
\* work.iter_mut().zip(x.iter().zip(input.iter())): *w = x * i
apply_modulate(input, work, x) ==
    [i \in DOMAIN work |->
        IF i < Min(LenOf(x), LenOf(input)) THEN CMul(x[i], input[i]) ELSE work[i]]
\* mutant: the tail of the scratch buffer is left as it was
apply_zero_pad_skipped(work, size) == work
\* work[size..]: Complex::default()
apply_zero_pad(work, size) ==
    [i \in DOMAIN work |-> IF i >= size THEN Zero ELSE work[i]]
\* work.iter_mut().zip(w.iter()): *w *= wi
apply_multiply(work, w) ==
    [i \in DOMAIN work |-> IF i < LenOf(w) THEN CMul(work[i], w[i]) ELSE work[i]]
\* mutant: every kind takes the unscaled arm of the match
apply_output_unscaled(input, work, x, transform) ==
    [i \in DOMAIN input |->
        IF i < Min(LenOf(work), LenOf(x)) THEN CMul(work[i], x[i]) ELSE input[i]]
\* the match on transform: input.iter_mut().zip(work.iter().zip(x.iter()))
apply_output(input, work, x, transform) ==
    LET size == LenOf(input)
        n == Min(LenOf(work), LenOf(x))
    IN  CASE transform \in {"Fft", "UnscaledIfft"} ->
                [i \in DOMAIN input |->
                    IF i < n THEN CMul(work[i], x[i]) ELSE input[i]]
          [] transform = "Ifft" ->
                LET scale == RDiv(1, from_usize(size))
                IN  [i \in DOMAIN input |->
                        IF i < n THEN CScale(CMul(work[i], x[i]), scale)
                        ELSE input[i]]
          [] transform \in {"SqrtScaledFft", "SqrtScaledIfft"} ->
                LET scale == RDiv(1, RSqrt(from_usize(size)))
                IN  [i \in DOMAIN input |->
                        IF i < n THEN CScale(CMul(work[i], x[i]), scale)
                        ELSE input[i]]

(* ------------------------------ state ---------------------------------- *)
VARIABLES
    pc,         \* "start", "w_fft" (new_with_fft at its inner FFT calls),
                \* "ready" (the engine exists), "panic"; SizeSpec: "arg", "ret"
    err,        \* the panic's message, "" while none
    size,       \* Bluesteins::size
    inner_fft,  \* inner_fft.size()
    w_forward, w_inverse, x_forward, x_inverse,
    work,       \* the contents of the RefCell
    borrow,     \* the RefCell's count of live RefMut guards
    buffer,     \* the caller's buffer
    chained,    \* the caller has not written the buffer since the last call
                \* returned (two writes in a row are one write)
    calls,      \* top-level calls completed
    frames,     \* the transform_in_place calls in progress, innermost last
    last        \* the last completed top-level call, while the buffer is as
                \* that call left it

vars == <<pc, err, size, inner_fft, w_forward, w_inverse, x_forward, x_inverse,
          work, borrow, buffer, chained, calls, frames, last>>
tables == <<w_forward, w_inverse, x_forward, x_inverse>>

NoCall == [kind |-> "none", in |-> Empty, out |-> Empty,
           preKind |-> "none", preIn |-> Empty]

(* what the callers hand in *)
Vals ==
    {Cx(v, 0) : v \in 1..MaxVal} \cup {Cx(0, v) : v \in 1..MaxVal} \cup {Cx(1, 1)}
Impulse(n, j, v) == [i \in 0..(n - 1) |-> IF i = j THEN v ELSE Zero]
\* buffers of length n
Inputs(n) ==
    {Impulse(n, j, v) : j \in 0..(n - 1), v \in Vals}
        \cup {Filled(n, v) : v \in Vals \cup {Zero}}
\* the buffers a callback hands in
CallbackInputs(n) == {Filled(n, One), Filled(n + 1, One)}
\* buffers of a length other than n
OtherInputs(n) == {Filled(m, One) : m \in {n - 1, n + 1} \ {-1}}
Lengths(n) == {n - 1, n, n + 1} \ {-1}
\* the sizes of the inner FFTs handed to new_with_fft for size n
InnerSizes(n) == {m \in {1, inner_fft_size(n), 2 * inner_fft_size(n)} : m > 0}
\* what an uninitialised buffer may hold
Junk == {Zero, Cx(1, 1)}

Init ==
    /\ pc = "start"
    /\ err = ""
    /\ size = 0
    /\ inner_fft = 0
    /\ w_forward = Empty
    /\ w_inverse = Empty
    /\ x_forward = Empty
    /\ x_inverse = Empty
    /\ work = Empty
    /\ borrow = 0
    /\ buffer = Empty
    /\ chained = TRUE
    /\ calls = 0
    /\ frames = <<>>
    /\ last = NoCall

\* a panic: the stack unwinds, every guard is dropped, nothing runs afterwards
Panic(message) ==
    /\ pc' = "panic"
    /\ err' = message
    /\ frames' = <<>>
    /\ borrow' = 0

(* --------------------------- new_with_fft ------------------------------ *)
\* new_with_fft up to the first inner FFT call of initialize_w_twiddles
new_with_fft ==
    /\ pc = "start"
    /\ \E n \in 0..MaxN :
       \E fft_size \in InnerSizes(n) :
       \E lwf \in Lengths(fft_size), lwi \in Lengths(fft_size) :
       \E lxf \in Lengths(n), lxi \in Lengths(n) :
       \E lwork \in Lengths(fft_size), junk \in Junk :
          /\ size' = n
          /\ inner_fft' = fft_size
          /\ x_forward' = Filled(lxf, junk)
          /\ x_inverse' = Filled(lxi, junk)
          /\ work' = Filled(lwork, junk)
          /\ IF inner_fft_size(n) = None
             THEN /\ Panic("inner_fft_size: 2 * size - 1 overflows")
                  /\ w_forward' = Filled(lwf, junk)
                  /\ w_inverse' = Filled(lwi, junk)
             ELSE IF fft_size # inner_fft_size(n)
             THEN /\ Panic("assert_eq!(inner_fft.size(), inner_fft_size(size))")
                  /\ w_forward' = Filled(lwf, junk)
                  /\ w_inverse' = Filled(lwi, junk)
             ELSE IF lwf # fft_size
             THEN /\ Panic("assert_eq!(forward_twiddles.len(), fft.size())")
                  /\ w_forward' = Filled(lwf, junk)
                  /\ w_inverse' = Filled(lwi, junk)
             ELSE IF lwi # fft_size
             THEN /\ Panic("assert_eq!(inverse_twiddles.len(), fft.size())")
                  /\ w_forward' = Filled(lwf, junk)
                  /\ w_inverse' = Filled(lwi, junk)
             ELSE /\ pc' = "w_fft"
                  /\ w_forward' = w_fill_forward(n, fft_size)
                  /\ w_inverse' = w_fill_inverse(n, fft_size)
                  /\ UNCHANGED <<err, frames, borrow>>
    /\ UNCHANGED <<buffer, chained, calls, last>>

\* the two inner FFTs, initialize_x_twiddles, and the engine returned
new_with_fft_return ==
    /\ pc = "w_fft"
    /\ w_forward' = fft_in_place(w_forward)
    /\ w_inverse' = fft_in_place(w_inverse)
    /\ IF LenOf(x_forward) # size
       THEN /\ Panic("assert_eq!(forward_twiddles.len(), size)")
            /\ UNCHANGED <<x_forward, x_inverse>>
       ELSE IF LenOf(x_inverse) # size
       THEN /\ Panic("assert_eq!(inverse_twiddles.len(), size)")
            /\ UNCHANGED <<x_forward, x_inverse>>
       ELSE /\ pc' = "ready"
            /\ x_forward' = x_fill_forward(size)
            /\ x_inverse' = x_fill_inverse(size)
            /\ UNCHANGED <<err, frames, borrow>>
    /\ UNCHANGED <<size, inner_fft, work, buffer, chained, calls, last>>

(* ------------------------- transform_in_place -------------------------- *)
\* mutant: the borrow is handed out without the check
borrow_mut_unchecked(guards) == TRUE
\* RefCell::borrow_mut succeeds when no guard is live, and panics otherwise
borrow_mut(guards) == guards = 0

\* mutant: the assertion is gone
input_len_unchecked(x, input) == TRUE
\* assert_eq!(x.len(), input.len())
input_len_ok(x, input) == LenOf(x) = LenOf(input)

select_x(transform) == IF is_forward(transform) THEN x_forward ELSE x_inverse
\* mutant: the forward w-table whatever the kind
select_w_forward_only(transform) == w_forward
select_w(transform) == IF is_forward(transform) THEN w_forward ELSE w_inverse

Top == frames[Len(frames)]

\* transform_in_place up to the call of fft.fft_in_place(work)
Enter(input, transform, preKind, preIn) ==
    IF ~borrow_mut(borrow)
    THEN Panic("already borrowed: BorrowMutError") /\ UNCHANGED work
    ELSE IF ~input_len_ok(select_x(transform), input)
    THEN Panic("assert_eq!(x.len(), input.len())") /\ UNCHANGED work
    ELSE IF LenOf(input) > LenOf(work)
    THEN /\ Panic("work[size..]: range start out of range")
         /\ work' = apply_modulate(input, work, select_x(transform))
    ELSE /\ work' = apply_zero_pad(
                        apply_modulate(input, work, select_x(transform)),
                        LenOf(input))
         /\ frames' = Append(frames,
                [transform |-> transform, input |-> input, pc |-> "fft",
                 preKind |-> preKind, preIn |-> preIn])
         /\ borrow' = borrow + 1
         /\ UNCHANGED <<pc, err>>

\* the caller writes its buffer
write_buffer ==
    /\ pc = "ready"
    /\ frames = <<>>
    /\ calls < MaxCalls
    /\ chained
    /\ \E b \in Inputs(size) \cup OtherInputs(size) : buffer' = b
    /\ chained' = FALSE
    /\ last' = NoCall
    /\ UNCHANGED <<pc, err, size, inner_fft, tables, work, borrow, calls, frames>>

\* the caller calls transform_in_place on its buffer
transform_in_place ==
    /\ pc = "ready"
    /\ frames = <<>>
    /\ calls < MaxCalls
    /\ \E transform \in Transforms :
          Enter(buffer, transform,
                IF chained THEN last.kind ELSE "none",
                IF chained THEN last.in ELSE Empty)
    /\ last' = NoCall
    /\ UNCHANGED <<size, inner_fft, tables, buffer, chained, calls>>

\* a callback reached inside the inner FFT calls transform_in_place on the
\* same engine, with a buffer of its own
callback_transform_in_place ==
    /\ pc = "ready"
    /\ frames # <<>>
    /\ Len(frames) < MaxDepth
    /\ \E input \in CallbackInputs(size), transform \in Transforms :
          Enter(input, transform, "none", Empty)
    /\ UNCHANGED <<size, inner_fft, tables, buffer, chained, calls, last>>

\* fft.fft_in_place(work), then the multiplication by w
inner_fft_forward ==
    /\ pc = "ready"
    /\ frames # <<>>
    /\ Top.pc = "fft"
    /\ IF LenOf(work) # inner_fft
       THEN Panic("inner FFT: the buffer's length is not its size") /\ UNCHANGED work
       ELSE /\ work' = apply_multiply(fft_in_place(work), select_w(Top.transform))
            /\ frames' = [frames EXCEPT ![Len(frames)].pc = "ifft"]
            /\ UNCHANGED <<pc, err, borrow>>
    /\ UNCHANGED <<size, inner_fft, tables, buffer, chained, calls, last>>

\* fft.ifft_in_place(work), the output loop, and the return
inner_fft_inverse ==
    /\ pc = "ready"
    /\ frames # <<>>
    /\ Top.pc = "ifft"
    /\ work' = ifft_in_place(work)
    /\ frames' = SubSeq(frames, 1, Len(frames) - 1)
    /\ borrow' = borrow - 1
    /\ LET out == apply_output(Top.input, work', select_x(Top.transform),
                               Top.transform)
       IN  IF Len(frames) = 1
           THEN /\ buffer' = out
                /\ last' = [kind |-> Top.transform, in |-> Top.input, out |-> out,
                            preKind |-> Top.preKind, preIn |-> Top.preIn]
                /\ chained' = TRUE
                /\ calls' = calls + 1
           ELSE UNCHANGED <<buffer, last, chained, calls>>
    /\ UNCHANGED <<pc, err, size, inner_fft, tables>>

Next ==
    \/ new_with_fft
    \/ new_with_fft_return
    \/ write_buffer
    \/ transform_in_place
    \/ callback_transform_in_place
    \/ inner_fft_forward
    \/ inner_fft_inverse

Spec == Init /\ [][Next]_vars

(* ------------------- inner_fft_size on its own ------------------------- *)
SizeInit ==
    /\ pc = "arg"
    /\ err = ""
    /\ size \in 0..MaxArg
    /\ inner_fft = 0
    /\ w_forward = Empty
    /\ w_inverse = Empty
    /\ x_forward = Empty
    /\ x_inverse = Empty
    /\ work = Empty
    /\ borrow = 0
    /\ buffer = Empty
    /\ chained = FALSE
    /\ calls = 0
    /\ frames = <<>>
    /\ last = NoCall

call_inner_fft_size ==
    /\ pc = "arg"
    /\ inner_fft' = inner_fft_size(size)
    /\ pc' = IF inner_fft_size(size) = None THEN "panic" ELSE "ret"
    /\ err' = IF inner_fft_size(size) = None
              THEN "inner_fft_size: 2 * size - 1 overflows" ELSE ""
    /\ UNCHANGED <<size, tables, work, borrow, buffer, chained, calls, frames, last>>

SizeNext == call_inner_fft_size

SizeSpec == SizeInit /\ [][SizeNext]_vars

(* ============================== claims ================================= *)
InCall == pc = "ready" /\ frames # <<>>
\* a top-level call has returned and the caller has not yet touched its buffer
Returned == pc = "ready" /\ frames = <<>> /\ last.kind # "none"
ScaleAll(a, r) == [i \in DOMAIN a |-> CScale(a[i], r)]
\* the O(N^2) sum X[k] = sum_j a[j] * exp(sign*2*pi*i*j*k/N)
NaiveSum(a, k, sign, j) ==
    CMul(a[j], UnitTable[(sign * j * k * (Circle \div LenOf(a))) % Circle])
NaiveDft(a, sign) ==
    [k \in DOMAIN a |->
        LET terms == [j \in DOMAIN a |-> NaiveSum(a, k, sign, j)]
        IN  CSumTo(terms, LenOf(a))]

\* C1: a completed transform_in_place with kind Fft leaves in the buffer the
\* naive DFT of the buffer it was called with, X[k] = sum_j input[j] *
\* exp(-2*pi*i*j*k/N); for N = 4 and input [1,0,0,0] every entry is 1+0i.
C1_FftIsNaiveDft ==
    (Returned /\ last.kind = "Fft") =>
        /\ LenOf(last.in) = size
        /\ buffer = last.out
        /\ last.out = NaiveDft(last.in, -1)
        /\ (last.in = Impulse(4, 0, One) => last.out = Filled(4, One))
C1_Witness ==
    /\ Returned
    /\ last.kind = "Fft"
    /\ size = 5
    /\ last.in = Impulse(5, 2, Cx(0, 1))
    /\ last.out # last.in

\* C2: transform_in_place with kind Fft and then, on the same engine and the
\* buffer the first call left, transform_in_place with kind Ifft reproduces
\* the sequence the first call was given; for N = 4 the Ifft of the all-ones
\* spectrum is [1,0,0,0].
C2_RoundTrip ==
    (Returned /\ last.kind = "Ifft") =>
        /\ (last.preKind = "Fft" => last.out = last.preIn)
        /\ (last.in = Filled(4, One) => last.out = Impulse(4, 0, One))
C2_Witness ==
    /\ Returned
    /\ last.kind = "Ifft"
    /\ last.preKind = "Fft"
    /\ size = 5
    /\ last.preIn = Impulse(5, 1, Cx(1, 1))
    /\ last.in # last.preIn
    /\ last.out = last.preIn

\* C3: a transform_in_place invoked while another one on the same engine is
\* in progress panics before it touches the scratch buffer; the call is never
\* blocked; and at no time do two calls hold the scratch buffer.
C3_ReentryFailsFast ==
    /\ [](Len(frames) <= 1 /\ borrow = Len(frames))
    /\ [](InCall => ENABLED callback_transform_in_place)
    /\ [][(InCall /\ callback_transform_in_place) =>
            (pc' = "panic" /\ err' = "already borrowed: BorrowMutError"
                /\ work' = work /\ buffer' = buffer)]_vars
C3_Witness ==
    /\ pc = "panic"
    /\ err = "already borrowed: BorrowMutError"
    /\ calls = 1

\* C4: for every N >= 1, inner_fft_size(N) returns the smallest power of two
\* M with M >= 2N-1: M is a power of two, M >= 2N-1, and M/2 < 2N-1 when
\* M > 1; inner_fft_size(5) = 16 and inner_fft_size(9) = 32.
IsPowerOfTwo(m) == m >= 1 /\ \A d \in 2..m : (m % d = 0 => d % 2 = 0)
C4_InnerFftSize ==
    /\ (pc = "panic" => size = 0)
    /\ (pc = "ret" =>
          /\ size >= 1
          /\ IsPowerOfTwo(inner_fft)
          /\ inner_fft >= 2 * size - 1
          /\ (inner_fft > 1 => inner_fft \div 2 < 2 * size - 1)
          /\ (size = 5 => inner_fft = 16)
          /\ (size = 9 => inner_fft = 32))
C4_Witness == pc = "ret" /\ size = 9 /\ inner_fft = 32

\* C5: every engine that new_with_fft returns has an inner FFT of size
\* inner_fft_size(N), w-tables of length M, x-tables of length N and a
\* scratch buffer of length exactly M (new_with_fft panics otherwise).
C5_ConstructChecksEveryLength ==
    (pc = "ready") =>
        /\ inner_fft = inner_fft_size(size)
        /\ LenOf(w_forward) = inner_fft
        /\ LenOf(w_inverse) = inner_fft
        /\ LenOf(x_forward) = size
        /\ LenOf(x_inverse) = size
        /\ LenOf(work) = inner_fft

\* what new_with_fft does check: the four lengths it asserts
C5_AssertedLengths ==
    (pc = "ready") =>
        /\ inner_fft = inner_fft_size(size)
        /\ LenOf(w_forward) = inner_fft
        /\ LenOf(w_inverse) = inner_fft
        /\ LenOf(x_forward) = size
        /\ LenOf(x_inverse) = size

\* the table pair and the scale the claim gives each kind
ClaimForward(kind) == kind \in {"Fft", "SqrtScaledFft"}
ClaimX(kind) == IF ClaimForward(kind) THEN x_forward ELSE x_inverse
ClaimW(kind) == IF ClaimForward(kind) THEN w_forward ELSE w_inverse
ClaimScale(kind, n) ==
    CASE kind \in {"Fft", "UnscaledIfft"} -> 1
      [] kind = "Ifft" -> RInv(n % P)
      [] kind \in {"SqrtScaledFft", "SqrtScaledIfft"} ->
            CHOOSE r \in 1..(P - 1) :
                (r * r * n) % P = 1 /\ (r * RSqrt(n % P)) % P = 1

\* C6: the kind alone fixes the table pair and the scale: forward kinds use
\* (x_forward, w_forward), inverse kinds (x_inverse, w_inverse); the scale is
\* 1 for Fft and UnscaledIfft, 1/N for Ifft, 1/sqrt(N) for the SqrtScaled
\* kinds; so the UnscaledIfft output is N times the Ifft output.
C6_KindFixesTablesAndScale ==
    /\ (InCall /\ Top.pc = "fft") =>
          \A i \in 0..(size - 1) :
              work[i] = CMul(ClaimX(Top.transform)[i], Top.input[i])
    /\ (InCall /\ Top.pc = "ifft") =>
          work = [i \in DOMAIN work |->
                    CMul(fft_in_place(
                            [j \in DOMAIN work |->
                                IF j < size
                                THEN CMul(ClaimX(Top.transform)[j], Top.input[j])
                                ELSE Zero])[i],
                         ClaimW(Top.transform)[i])]
    /\ Returned =>
          /\ last.out =
                ScaleAll(NaiveDft(last.in, IF ClaimForward(last.kind) THEN -1 ELSE 1),
                         ClaimScale(last.kind, size))
          /\ (last.kind = "UnscaledIfft" =>
                last.out = ScaleAll(ScaleAll(NaiveDft(last.in, 1),
                                             ClaimScale("Ifft", size)),
                                    size % P))
C6_Witness ==
    /\ Returned
    /\ last.kind = "SqrtScaledIfft"
    /\ size = 3
    /\ last.in = Impulse(3, 1, One)
    /\ last.out # NaiveDft(last.in, 1)

\* C7: when the inner forward FFT is invoked on the scratch buffer, it holds
\* scratch[i] = x[i]*input[i] for every i in [0,N) and scratch[i] = 0 for
\* every i in [N,M).
C7_ZeroPadded ==
    (InCall /\ Top.pc = "fft") =>
        /\ \A i \in 0..(size - 1) :
              i \in DOMAIN work
                  /\ work[i] = CMul(select_x(Top.transform)[i], Top.input[i])
        /\ \A i \in size..(inner_fft - 1) :
              i \in DOMAIN work /\ work[i] = Zero

\* the same on the engines whose scratch buffer has M entries or more
C7_ZeroPaddedWhenSized ==
    (InCall /\ Top.pc = "fft" /\ LenOf(work) >= inner_fft) =>
        /\ \A i \in 0..(size - 1) :
              work[i] = CMul(select_x(Top.transform)[i], Top.input[i])
        /\ \A i \in size..(LenOf(work) - 1) : work[i] = Zero

\* C8: transform_in_place called with a buffer whose length differs from N
\* fails its assertion before any element of the caller's buffer or of the
\* scratch buffer is written and before the inner FFT is invoked.
C8_WrongLengthIsFatal ==
    [][(pc = "ready" /\ frames = <<>> /\ LenOf(buffer) # size
            /\ transform_in_place) =>
        (pc' = "panic" /\ err' = "assert_eq!(x.len(), input.len())"
            /\ buffer' = buffer /\ work' = work /\ frames' = <<>>)]_vars
C8_Witness ==
    /\ pc = "panic"
    /\ err = "assert_eq!(x.len(), input.len())"
    /\ LenOf(buffer) = size + 1
    /\ calls = 1

\* C9: in initialize_w_twiddles no index i of [0,M) satisfies both i < N and
\* i > M-N; before the inner forward FFT the w-tables hold the chirp of index
\* i^2 at i in [0,N), the chirp of index (i-M)^2 at i in (M-N,M), the zero
\* sample at every i in [N,M-N], and entries i and M-i are equal for i in
\* [1,N).
C9_WIndexPartition ==
    (pc = "w_fft") =>
        /\ \A i \in 0..(inner_fft - 1) :
              /\ ~(i < size /\ i > inner_fft - size)
              /\ (i < size =>
                    /\ w_inverse[i] = compute_half_twiddle(i * i, size)
                    /\ w_forward[i] = conj(compute_half_twiddle(i * i, size)))
              /\ (i > inner_fft - size =>
                    /\ w_inverse[i] =
                          compute_half_twiddle((i - inner_fft) * (i - inner_fft), size)
                    /\ w_forward[i] =
                          conj(compute_half_twiddle(
                                  (i - inner_fft) * (i - inner_fft), size)))
              /\ ((size <= i /\ i <= inner_fft - size) =>
                    w_inverse[i] = Zero /\ w_forward[i] = Zero)
        /\ \A i \in 1..(size - 1) :
              /\ w_forward[i] = w_forward[inner_fft - i]
              /\ w_inverse[i] = w_inverse[inner_fft - i]
C9_Witness ==
    /\ pc = "w_fft"
    /\ size = 5
    /\ inner_fft = 16
    /\ w_forward[11] = Zero
    /\ w_forward[12] = w_forward[4]
    /\ w_forward[12] # Zero

\* the tables new_with_fft computes for each size
FreshTables ==
    [n \in 1..MaxN |->
        <<fft_in_place(w_fill_forward(n, inner_fft_size(n))),
          fft_in_place(w_fill_inverse(n, inner_fft_size(n))),
          x_fill_forward(n),
          x_fill_inverse(n)>>]
\* the output of a freshly constructed engine of size n, its scratch zeroed
FreshOut(n, input, kind) ==
    LET m == inner_fft_size(n)
        x == FreshTables[n][IF is_forward(kind) THEN 3 ELSE 4]
        w == FreshTables[n][IF is_forward(kind) THEN 1 ELSE 2]
        padded == apply_zero_pad(apply_modulate(input, Filled(m, Zero), x), n)
    IN  apply_output(input, ifft_in_place(apply_multiply(fft_in_place(padded), w)),
                     x, kind)

\* C10: after any sequence of completed transform_in_place calls the four
\* tables and size() are what they were at construction, the scratch guard
\* is free, and the last call produced what a freshly constructed engine
\* produces for the same input and kind.
C10_HistoryIndependent ==
    /\ [][(pc = "ready") => (tables' = tables /\ size' = size
                               /\ inner_fft' = inner_fft)]_vars
    /\ []((pc = "ready" /\ frames = <<>>) => borrow = 0)
    /\ [](Returned => last.out = FreshOut(size, last.in, last.kind))
C10_Witness ==
    /\ Returned
    /\ calls = 2
    /\ size = 3
    /\ last.preKind = "none"
    /\ last.kind = "SqrtScaledFft"
    /\ last.in = Impulse(3, 2, Cx(1, 1))

====
